---- MODULE Spec2Model ----
(***************************************************************************)
(* The plugin host of read-cat: src/src/core/plugins/index.ts.             *)
(*                                                                         *)
(* Part 1 models the schema validator (_isPlugin and its helpers) as pure  *)
(* operators over JavaScript values.  Part 2 models the Plugins class as a *)
(* state machine: the registry (pluginsPool), the store cache              *)
(* (pluginsStore), the persistence collaborator (GLOBAL_DB) and the async  *)
(* calls import / enable / disable / delete / importPool, one action per   *)
(* run of code between two suspension points (await).                      *)
(***************************************************************************)
EXTENDS Integers, Sequences, FiniteSets, TLC

(***************************************************************************)
(* JavaScript values.  A string is a sequence of units; the units of an ID *)
(* are its characters, the units of a URL are its lexical tokens.          *)
(***************************************************************************)
Undef == [t |-> "undefined"]
Fn == [t |-> "function"]
Obj == [t |-> "object"]
Str(s) == [t |-> "string", v |-> s]
Num(n) == [t |-> "number", v |-> n]

isUndefined(x) == x.t = "undefined"
isString(x) == x.t = "string"
isNumber(x) == x.t = "number"
isFunction(x) == x.t = "function"

\* enum PluginType { BOOK_SOURCE, BOOK_STORE }
BOOK_SOURCE == 0
BOOK_STORE == 1

\* PluginType.valueOf with every number mapped to itself: the membership
\* test of the enum is lost.
PluginTypeValueOf_AnyNumber(val) == Num(val)

\* PluginType.valueOf: map.get(val) over the numeric values of the enum.
PluginTypeValueOf(val) ==
  IF val \in {BOOK_SOURCE, BOOK_STORE} THEN Num(val) ELSE Undef

WhiteSpace == {" ", "\t"}
\* The characters the class [A-Za-z0-9_\-] of line 400 matches.
IdChars == {"a", "Z", "0", "_", "-"}

RECURSIVE TrimStart(_)
TrimStart(s) ==
  IF s = <<>> THEN s
  ELSE IF Head(s) \in WhiteSpace THEN TrimStart(Tail(s)) ELSE s

RECURSIVE TrimEnd(_)
TrimEnd(s) ==
  IF s = <<>> THEN s
  ELSE IF s[Len(s)] \in WhiteSpace THEN TrimEnd(SubSeq(s, 1, Len(s) - 1)) ELSE s

\* String.prototype.trim
Trim(s) == TrimEnd(TrimStart(s))

\* /[A-Za-z0-9_\-]/.test(s): the pattern has no anchors and no quantifier,
\* so it matches when SOME character of s is in the class.
IdRegexTest(s) == \E i \in 1..Len(s) : s[i] \in IdChars

Lower(u) ==
  CASE u = "HTTP://" -> "http://"
    [] u = "HTTPS://" -> "https://"
    [] u = ".JS" -> ".js"
    [] OTHER -> u

\* /^https?:\/\/.*?\.js$/i over the tokens of a URL
FileUrlRegexTest(s) ==
  /\ Len(s) >= 2
  /\ Lower(s[1]) \in {"http://", "https://"}
  /\ Lower(s[Len(s)]) = ".js"

\* /^https?:\/\/.*?/i over the tokens of a URL
BaseUrlRegexTest(s) ==
  /\ Len(s) >= 1
  /\ Lower(s[1]) \in {"http://", "https://"}

Pass == [ok |-> TRUE, msg |-> ""]
Throw(m) == [ok |-> FALSE, msg |-> m]

ID_MIN == 16
ID_MAX == 32
GROUP_MAX == 15
NAME_MAX == 15
VERSION_MAX == 8

\* _isPlugin, lines 394-405
CheckID(plugin) ==
  IF isUndefined(plugin.ID) THEN Throw("Static property [ID] not found")
  ELSE IF ~isString(plugin.ID) THEN Throw("Static property [ID] is not of string type")
  ELSE IF ~IdRegexTest(plugin.ID.v) \/ Trim(plugin.ID.v) # plugin.ID.v
    THEN Throw("The ID format is not standard")
  ELSE IF Len(plugin.ID.v) < ID_MIN \/ Len(plugin.ID.v) > ID_MAX
    THEN Throw("Static property [ID] Length:" \o ToString(Len(plugin.ID.v))
               \o ", ID range in length [16,32]")
  ELSE Pass

\* _isPlugin, lines 407-415
CheckTYPE(plugin) ==
  IF isUndefined(plugin.TYPE) THEN Throw("Static property [TYPE] not found")
  ELSE IF ~isNumber(plugin.TYPE) THEN Throw("Static property [TYPE] is not of number type")
  ELSE IF isUndefined(PluginTypeValueOf(plugin.TYPE.v))
    THEN Throw("Static property [TYPE] is unknown plugin type")
  ELSE Pass

\* _isPlugin, lines 417-428
CheckGROUP(plugin) ==
  IF isUndefined(plugin.GROUP) THEN Throw("Static property [GROUP] not found")
  ELSE IF ~isString(plugin.GROUP) THEN Throw("Static property [GROUP] is not of string type")
  ELSE IF Trim(plugin.GROUP.v) # plugin.GROUP.v THEN Throw("The GROUP format is not standard")
  ELSE IF Len(plugin.GROUP.v) < 1 \/ Len(plugin.GROUP.v) > GROUP_MAX
    THEN Throw("Static property [GROUP] Length:" \o ToString(Len(plugin.GROUP.v))
               \o ", GROUP range in length [2,15]")
  ELSE Pass

\* _isPlugin, lines 430-441
CheckNAME(plugin) ==
  IF isUndefined(plugin.NAME) THEN Throw("Static property [NAME] not found")
  ELSE IF ~isString(plugin.NAME) THEN Throw("Static property [NAME] is not of string type")
  ELSE IF Trim(plugin.NAME.v) # plugin.NAME.v THEN Throw("The NAME format is not standard")
  ELSE IF Len(plugin.NAME.v) < 1 \/ Len(plugin.NAME.v) > NAME_MAX
    THEN Throw("Static property [NAME] Length:" \o ToString(Len(plugin.NAME.v))
               \o ", NAME range in length [2,15]")
  ELSE Pass

\* _isPlugin, lines 443-454
CheckVERSION(plugin) ==
  IF isUndefined(plugin.VERSION) THEN Throw("Static property [VERSION] not found")
  ELSE IF ~isString(plugin.VERSION) THEN Throw("Static property [VERSION] is not of string type")
  ELSE IF Trim(plugin.VERSION.v) # plugin.VERSION.v
    THEN Throw("The VERSION format is not standard")
  ELSE IF Len(plugin.VERSION.v) < 0 \/ Len(plugin.VERSION.v) > VERSION_MAX
    THEN Throw("Static property [VERSION] Length:" \o ToString(Len(plugin.VERSION.v))
               \o ", VERSION range in length [1,8]")
  ELSE Pass

\* _isPlugin, lines 456-461
CheckVERSION_CODE(plugin) ==
  IF isUndefined(plugin.VERSION_CODE) THEN Throw("Static property [VERSION_CODE] not found")
  ELSE IF ~isNumber(plugin.VERSION_CODE)
    THEN Throw("Static property [VERSION_CODE] is not of number type")
  ELSE Pass

\* _isPlugin, lines 463-471
CheckPLUGIN_FILE_URL(plugin) ==
  IF isUndefined(plugin.PLUGIN_FILE_URL)
    THEN Throw("Static property [PLUGIN_FILE_URL] not found")
  ELSE IF ~isString(plugin.PLUGIN_FILE_URL)
    THEN Throw("Static property [PLUGIN_FILE_URL] is not of string type")
  ELSE IF Trim(plugin.PLUGIN_FILE_URL.v) # <<>> /\ ~FileUrlRegexTest(plugin.PLUGIN_FILE_URL.v)
    THEN Throw("The [PLUGIN_FILE_URL] format is not standard")
  ELSE Pass

\* _isPlugin, lines 473-484
CheckBASE_URL(plugin) ==
  IF isUndefined(plugin.BASE_URL) THEN Throw("Static property [BASE_URL] not found")
  ELSE IF ~isString(plugin.BASE_URL) THEN Throw("Static property [BASE_URL] is not of string type")
  ELSE IF Trim(plugin.BASE_URL.v) = <<>> THEN Throw("Static property [BASE_URL] is empty")
  ELSE IF ~BaseUrlRegexTest(plugin.BASE_URL.v)
    THEN Throw("The [BASE_URL] format is not standard")
  ELSE Pass

\* _isBookSource with the getTextContent checks left out.
_isBookSource_TwoMethods(plugin) ==
  LET p == plugin.prototype IN
  IF isUndefined(p.search) THEN Throw("Function [search] not found")
  ELSE IF ~isFunction(p.search) THEN Throw("Property [search] is not of function type")
  ELSE IF isUndefined(p.getDetail) THEN Throw("Function [getDetail] not found")
  ELSE IF ~isFunction(p.getDetail) THEN Throw("Property [getDetail] is not of function type")
  ELSE Pass

\* _isBookSource
_isBookSource(plugin) ==
  LET p == plugin.prototype IN
  IF isUndefined(p.search) THEN Throw("Function [search] not found")
  ELSE IF ~isFunction(p.search) THEN Throw("Property [search] is not of function type")
  ELSE IF isUndefined(p.getDetail) THEN Throw("Function [getDetail] not found")
  ELSE IF ~isFunction(p.getDetail) THEN Throw("Property [getDetail] is not of function type")
  ELSE IF isUndefined(p.getTextContent) THEN Throw("Function [getTextContent] not found")
  ELSE IF ~isFunction(p.getTextContent)
    THEN Throw("Property [getTextContent] is not of function type")
  ELSE Pass

\* A book store accepted like any other plugin.
_isBookStore_Accepts(plugin) == Pass

\* _isBookStore: logs the prototype and throws.
_isBookStore(plugin) == Throw("unknown")

\* The static-field checks of _isPlugin, in the order of the code: the first
\* failing check decides the message.
StaticChecks(plugin) ==
  LET Then(r, next) == IF r.ok THEN next ELSE r IN
  Then(CheckID(plugin),
  Then(CheckTYPE(plugin),
  Then(CheckGROUP(plugin),
  Then(CheckNAME(plugin),
  Then(CheckVERSION(plugin),
  Then(CheckVERSION_CODE(plugin),
  Then(CheckPLUGIN_FILE_URL(plugin),
       CheckBASE_URL(plugin))))))))

\* _isPlugin: the static checks, then the switch on TYPE of lines 492-500.
_isPlugin(plugin) ==
  LET r == StaticChecks(plugin) IN
  IF ~r.ok THEN r
  ELSE IF plugin.TYPE.v = BOOK_STORE THEN _isBookStore(plugin)
  ELSE _isBookSource(plugin)

\* isPlugin: the predicate that swallows the failure.
isPlugin(plugin) == _isPlugin(plugin).ok


(***************************************************************************)
(* Part 2: the Plugins class.                                              *)
(***************************************************************************)

\* Bounds of the model.
NumIds == 3       \* persisted records importPool may find
MaxLoads == 1     \* importPool calls in one behaviour
MaxTop == 2       \* slots for public calls
MaxThreads == 2   \* largest threadsNumber setting tried

PLUGIN_STORE_MAX_BYTE_LENGTH == 4194304

Null == [t |-> "null"]
isNull(x) == x = Null

Pad(n) == [i \in 1..n |-> "a"]
IdTail == <<"Z", "0", "_", "-", "a", "z", "A", "9">>
\* The k-th plugin id: 16 characters of the class [A-Za-z0-9_-].
PluginIdOf(k) == Pad(15) \o <<IdTail[k]>>
Ids == 1..NumIds
\* The id the single-plugin calls of Spec are about.
OpIds == {PluginIdOf(1)}

GoodProto == [search |-> Fn, getDetail |-> Fn, getTextContent |-> Fn]

\* A class a script exports: the static fields _isPlugin reads, the
\* prototype, and whether its constructor throws.
Descriptor(k) ==
  [ID |-> Str(PluginIdOf(k)), TYPE |-> Num(BOOK_SOURCE),
   GROUP |-> Str(<<"n", "e", "w", "s">>), NAME |-> Str(<<"D", "e", "m", "o">>),
   VERSION |-> Str(<<"1", ".", "0">>), VERSION_CODE |-> Num(1),
   PLUGIN_FILE_URL |-> Str(<<>>), BASE_URL |-> Str(<<"http://", "example.com">>),
   prototype |-> GoodProto, ctorThrows |-> FALSE]

\* Script sources.  kind says what running the script does, imp whether the
\* text holds a module-import construct, min whether uglify-js rewrote it.
Source(k, kind, imp) == [k |-> k, kind |-> kind, imp |-> imp, min |-> FALSE]
Sources ==
  {Source(1, kind, FALSE) : kind \in {"good", "store", "badgroup", "ctor"}}
  \cup {Source(1, "good", TRUE), Source(0, "noexport", FALSE), Source(0, "throws", FALSE)}

\* What the script assigns to plugin.exports (pluginExports, line 576).
ExportsOf(jscode) ==
  CASE jscode.kind = "good" -> Descriptor(jscode.k)
    [] jscode.kind = "store" -> [Descriptor(jscode.k) EXCEPT !.TYPE = Num(BOOK_STORE)]
    [] jscode.kind = "badgroup" -> [Descriptor(jscode.k) EXCEPT !.GROUP = Str(<<>>)]
    [] jscode.kind = "ctor" -> [Descriptor(jscode.k) EXCEPT !.ctorThrows = TRUE]
    [] OTHER -> Null

\* pluginExports: runScript, then the test of the export slot.
pluginExports(jscode) ==
  IF jscode.kind = "throws" THEN [ok |-> FALSE, msg |-> "script error", exports |-> Null]
  ELSE IF isNull(ExportsOf(jscode))
    THEN [ok |-> FALSE, msg |-> "Cannot find plugin", exports |-> Null]
  ELSE [ok |-> TRUE, msg |-> "", exports |-> ExportsOf(jscode)]

\* ast.mangle_names(); ast.transform(...).print_to_string(), lines 348-351
Minify(jscode) == [jscode EXCEPT !.min = TRUE]

\* PluginImportOptions, or no options at all (given = FALSE).  force, debug
\* and enable are only read through ! and ?:, so unset reads as FALSE.
NoOptions == [given |-> FALSE, force |-> FALSE, minify |-> "unset", debug |-> FALSE,
              enable |-> FALSE]
Options(force, minify, debug, enable) ==
  [given |-> TRUE, force |-> force, minify |-> minify, debug |-> debug, enable |-> enable]
\* The options the import calls of the model are made with.
OptionSets ==
  {NoOptions,
   Options(FALSE, "true", FALSE, TRUE), Options(TRUE, "true", FALSE, TRUE),
   Options(TRUE, "unset", FALSE, FALSE), Options(TRUE, "false", FALSE, TRUE),
   Options(FALSE, "false", TRUE, TRUE), Options(TRUE, "true", TRUE, FALSE)}

\* The files importPluginFile can be pointed at.
Paths == {"plugin.js", "missing.js"}
existsSync(path) == path = "plugin.js"
readFileSync(path) == Source(1, "good", FALSE)

\* line 338: if (!options || options.minify)
RunsValidator(options) == ~options.given \/ options.minify = "true"

\* lines 318-325: the props of a registry record
PropsOf(PluginClass) ==
  [ID |-> PluginClass.ID, TYPE |-> PluginClass.TYPE, GROUP |-> PluginClass.GROUP,
   NAME |-> PluginClass.NAME, VERSION |-> PluginClass.VERSION,
   VERSION_CODE |-> PluginClass.VERSION_CODE,
   PLUGIN_FILE_URL |-> PluginClass.PLUGIN_FILE_URL, BASE_URL |-> PluginClass.BASE_URL]

MapSet(m, k, v) == [x \in DOMAIN m \cup {k} |-> IF x = k THEN v ELSE m[x]]
MapDel(m, k) == [x \in DOMAIN m \ {k} |-> m[x]]
EmptyMap == [x \in {} |-> Null]

Min(a, b) == IF a < b THEN a ELSE b
\* chunkArray of ../utils: consecutive chunks of `size` elements, the last one
\* shorter.
chunkArray(arr, size) ==
  [j \in 1..((Len(arr) + size - 1) \div size) |->
     SubSeq(arr, (j - 1) * size + 1, Min(j * size, Len(arr)))]

(***************************************************************************)
(* runScript: the container, the objects a script reaches from it, and the *)
(* proxy handler.                                                          *)
(***************************************************************************)
\* lines 513-537: the own properties of the container
Ctors == {"String", "Number", "Boolean", "Date", "RegExp", "Promise", "URLSearchParams"}
Helpers == {"isNaN", "isNull", "isUndefined", "isString", "isNumber", "isArray",
            "isDate", "isFunction"}
AllowList == {"plugin", "console", "Math", "JSON", "Timer"} \cup Ctors \cup Helpers

\* The objects of the heap.  A function is named fn:..., the prototype
\* object of a constructor F is named F.prototype.
FnOf(name) == "fn:" \o name
ProtoOf(F) == F \o ".prototype"
Functions ==
  {FnOf(n) : n \in Ctors \cup Helpers \cup {"Object", "Function", "timeout", "interval",
                                           "log", "max", "parse", "valueOf", "toString",
                                           "exported"}}
  \cup {"Function.prototype"}
PlainObjects ==
  {"sandbox", "plugin", "PluginType", "console", "Math", "JSON", "Timer",
   "Object.prototype", "window"} \cup {ProtoOf(F) : F \in Ctors}
HeapObjects == Functions \cup PlainObjects

\* Values: a primitive (undefined included), null, or a reference to a heap
\* object, which the script holds bare or behind a Proxy with the handler.
Prim == [t |-> "primitive"]
Ref(o, wrapped) == [t |-> "ref", o |-> o, wrapped |-> wrapped]
typeof(v) ==
  IF v = Null THEN "object"
  ELSE IF v.t = "ref" THEN (IF v.o \in Functions THEN "function" ELSE "object")
  ELSE "primitive"

\* [[Prototype]] of a heap object ("" for none).
Proto(o) ==
  IF o = "Object.prototype" THEN ""
  ELSE IF o = "Function.prototype" THEN "Object.prototype"
  ELSE IF o \in Functions THEN "Function.prototype"
  ELSE "Object.prototype"

\* The own properties of a heap object as the program set it up; written is
\* the set of <<object, name>> slots the script has assigned since.
OwnBuiltin(o) ==
  CASE o = "sandbox" -> AllowList
    [] o = "plugin" -> {"exports", "type"}
    [] o = "PluginType" -> {"BOOK_SOURCE", "BOOK_STORE", "valueOf"}
    [] o = "console" -> {"log"}
    [] o = "Math" -> {"PI", "max"}
    [] o = "JSON" -> {"parse"}
    [] o = "Timer" -> {"timeout", "interval"}
    [] o = "Object.prototype" -> {"constructor", "toString", "__proto__"}
    [] o = "Function.prototype" -> {"constructor"}
    [] o \in {ProtoOf(F) : F \in Ctors} -> {"constructor"}
    [] o \in {FnOf(F) : F \in Ctors \cup {"Object", "Function"}} -> {"prototype"}
    [] OTHER -> {}
Own(o, written) == OwnBuiltin(o) \cup {w[2] : w \in {x \in written : x[1] = o}}

\* The value of own property p of o.
OwnValue(o, p, written) ==
  IF <<o, p>> \in written
    THEN (IF o = "plugin" /\ p = "exports" THEN Ref(FnOf("exported"), FALSE) ELSE Prim)
  ELSE IF o = "sandbox"
    THEN (IF p \in Ctors \cup Helpers THEN Ref(FnOf(p), FALSE) ELSE Ref(p, FALSE))
  ELSE IF o = "plugin"
    THEN (IF p = "exports" THEN Null ELSE Ref("PluginType", FALSE))
  ELSE IF p = "constructor"
    THEN (CASE o = "Object.prototype" -> Ref(FnOf("Object"), FALSE)
            [] o = "Function.prototype" -> Ref(FnOf("Function"), FALSE)
            [] OTHER -> Ref(FnOf(CHOOSE F \in Ctors : ProtoOf(F) = o), FALSE))
  ELSE IF p = "prototype"
    THEN (CASE o = FnOf("Object") -> Ref("Object.prototype", FALSE)
            [] o = FnOf("Function") -> Ref("Function.prototype", FALSE)
            [] OTHER -> Ref(ProtoOf(CHOOSE F \in Ctors : FnOf(F) = o), FALSE))
  ELSE IF p \in {"BOOK_SOURCE", "BOOK_STORE", "PI"} THEN Prim
  ELSE Ref(FnOf(p), FALSE)

\* p in target: own or inherited.
RECURSIVE HasProperty(_, _, _)
HasProperty(o, p, written) ==
  IF o = "" THEN FALSE
  ELSE p \in Own(o, written) \/ HasProperty(Proto(o), p, written)

\* Reflect.get(target, p, receiver) and the plain member read: the property
\* is looked up along the prototype chain; __proto__ is the accessor of
\* Object.prototype and yields the prototype of the object read from.
RECURSIVE Lookup(_, _, _)
Lookup(o, p, written) ==
  IF o = "" THEN Prim
  ELSE IF p \in Own(o, written) THEN OwnValue(o, p, written)
  ELSE Lookup(Proto(o), p, written)
ReflectGet(o, p, written) ==
  IF p = "__proto__" /\ <<o, p>> \notin written
  THEN (IF Proto(o) = "" THEN Null ELSE Ref(Proto(o), FALSE))
  ELSE Lookup(o, p, written)

\* Outcomes of one operation of the script.
Yields(v) == [outcome |-> "value", v |-> v, msg |-> ""]
Denied(m) == [outcome |-> "denied", v |-> Prim, msg |-> m]
TypeError == [outcome |-> "typeerror", v |-> Prim, msg |-> "TypeError"]

\* handler.get, lines 544-558.  new Proxy(null, handler) throws a TypeError.
HandlerGet(target, p, written) ==
  IF p = "Symbol.unscopables" THEN Yields(Prim)
  ELSE IF HasProperty(target, p, written)
          /\ ReflectGet(target, p, written) # Ref("window", FALSE)
    THEN LET val == ReflectGet(target, p, written) IN
         IF typeof(val) = "object"
         THEN (IF val = Null THEN TypeError ELSE Yields(Ref(val.o, TRUE)))
         ELSE Yields(val)
  ELSE Denied("Permission denied to access property or function [" \o p \o "]")

\* handler.set, lines 559-564: TRUE when the write goes through.
HandlerSetAllows(target, p) == target = "plugin" /\ p = "exports"

\* The names the scripts of the model use: as identifiers, as member names
\* and as assignment targets.
ScriptNames ==
  AllowList \cup {"exports", "type", "prototype", "constructor", "toString",
                  "__proto__", "log", "timeout", "window", "x"}
AssignNames == {"exports", "x"}

\* The run of one script: cur is the value of the expression evaluated last,
\* last the last operation with its outcome, written the slots assigned.
NoOperation == [kind |-> "none", target |-> "", name |-> "", outcome |-> "value", msg |-> ""]
Operation(kind, target, name, r) ==
  [kind |-> kind, target |-> target, name |-> name, outcome |-> r.outcome, msg |-> r.msg]
RunStart == [cur |-> Prim, last |-> NoOperation, written |-> {}]

(***************************************************************************)
(* The request object import hands to the plugin constructor.             *)
(***************************************************************************)
MaxRequests == 2   \* requests the transport is handed in one behaviour

\* useSettingsStore(): options.enableProxy and proxy, read at each call.
ProxySetting == [t |-> "proxy", host |-> "127.0.0.1"]
SettingsValues == [enableProxy : BOOLEAN, proxy : {Undef, ProxySetting}]

\* PluginRequestConfig, or no config at all; proxy is only read as a truth
\* value.
NoConfig == [given |-> FALSE, proxy |-> "unset"]
Config(proxy) == [given |-> TRUE, proxy |-> proxy]
RequestConfigs == {NoConfig, Config("unset"), Config("false"), Config("true")}

\* A proxy that is asked for and not enabled is dropped: the request goes
\* out without one.
ProxyFor_DropWhenDisabled(config, settings) ==
  IF config.proxy = "true" /\ settings.enableProxy /\ settings.proxy # Undef
  THEN [ok |-> TRUE, proxy |-> settings.proxy]
  ELSE [ok |-> TRUE, proxy |-> Undef]

\* lines 272-279 and 286-293: the proxy of the request, or the throw.
ProxyFor(config, settings) ==
  IF config.proxy = "true"
  THEN IF settings.enableProxy /\ settings.proxy # Undef
       THEN [ok |-> TRUE, proxy |-> settings.proxy]
       ELSE [ok |-> FALSE, proxy |-> Undef]
  ELSE [ok |-> TRUE, proxy |-> Undef]

\* What the transport (requestGet, requestPost) is handed: {...config, proxy}.
Dispatched(method, proxy) == [method |-> method, proxy |-> proxy]

NoRequest == [method |-> "none", config |-> NoConfig, ok |-> TRUE, msg |-> ""]
NetStart(settings) == [settings |-> settings, sent |-> <<>>, last |-> NoRequest]

VARIABLES
  pluginsPool,     \* Plugins.pluginsPool: id -> [enable, props, instance]
  pluginsStore,    \* Plugins.pluginsStore: id -> store
  db,              \* GLOBAL_DB.store.pluginsJSCode: id -> [id, jscode, enable]
  loadStats,       \* usePluginsStore().loadStats
  pendingRemoves,  \* remove(id) calls issued by importPool and not awaited
  calls,           \* the async calls: slot -> call record
  nloads,          \* importPool calls started so far
  cand,            \* the value handed to _isPlugin (SpecValidate)
  verdict,         \* what _isPlugin did with it
  sbx,             \* the script runScript is executing (SpecSandbox)
  net              \* settings, and the requests of a plugin (SpecRequest)

vars == <<pluginsPool, pluginsStore, db, loadStats, pendingRemoves, calls, nloads,
          cand, verdict, sbx, net>>

Top == 1..MaxTop
ChildSlot(k) == MaxTop + k
Children == {ChildSlot(k) : k \in Ids}
Slots == Top \cup Children

Settled == {"idle", "resolved", "rejected"}

NoOut == [ok |-> TRUE, msg |-> "", stage |-> "none"]
Failure(msg, stage) == [ok |-> FALSE, msg |-> msg, stage |-> stage]
Success == [ok |-> TRUE, msg |-> "", stage |-> "done"]

\* A call record.  op, id, opts: the call and its arguments; pc: where it is
\* suspended, or how it settled; out: its outcome; the other fields are the
\* locals of the code (jscode, PluginClass, inst = pluginClass, rec = plugin,
\* p) and the pending write w with its state io.  prePool, preDb and quiet
\* record what the call found when it started, afterDisable and
\* afterConflict how the call before it ended; had and hadRec remember, once
\* the call settled, whether its id was registered and persisted when it
\* started.  imp: the source text the call was given holds a module-import
\* construct; ran: runScript has executed the script.
IdleCall ==
  [op |-> "none", pc |-> "idle", k |-> 0, id |-> <<>>,
   jscode |-> Null, opts |-> NoOptions, exec |-> NoOut, PluginClass |-> Null,
   inst |-> Null, rec |-> Null, w |-> Null, p |-> Null, io |-> "none", out |-> NoOut,
   all |-> <<>>, threads |-> 0, chunk |-> 0, parent |-> 0, base |-> 0,
   prePool |-> EmptyMap, preDb |-> EmptyMap, quiet |-> TRUE, afterDisable |-> FALSE,
   afterConflict |-> FALSE, had |-> FALSE, hadRec |-> FALSE,
   imp |-> FALSE, ran |-> FALSE]

InFlight(c) == calls[c].pc \notin Settled

\* A sequential caller (conc = FALSE) awaits each public call before the next
\* one; a concurrent caller starts a call in the first free slot.
CanStart(c, conc) ==
  /\ c \in Top
  /\ ~InFlight(c)
  /\ \A d \in Top : d < c => InFlight(d)
  /\ conc \/ \A d \in Slots : ~InFlight(d)

\* The record of a call that starts now, with what it finds.
Fresh(c, op, id) ==
  [IdleCall EXCEPT !.op = op, !.id = id,
                   !.prePool = pluginsPool, !.preDb = db,
                   !.quiet = (pendingRemoves = {}),
                   !.afterDisable = (calls[c].op = "disable" /\ calls[c].pc = "resolved"
                                     /\ calls[c].id = id),
                   !.afterConflict = (calls[c].pc = "rejected"
                                      /\ calls[c].out.stage = "duplicate")]

\* With the catch() of lines 220-227 left out a failed import leaves its
\* promise in ps rejected.
PsOutcome_NoCatch(out) == IF out.ok THEN "resolved" ELSE "rejected"

\* lines 216-227: then() records success; catch() records the failure, issues
\* the remove and returns Promise.resolve(): the promise in ps resolves.
PsOutcome(out) == "resolved"

\* What a settled call leaves in its slot.
Leftover(cr, pc, out) ==
  [IdleCall EXCEPT !.op = cr.op, !.pc = pc, !.k = cr.k, !.id = cr.id, !.opts = cr.opts,
                   !.out = out, !.all = cr.all, !.threads = cr.threads,
                   !.chunk = cr.chunk, !.parent = cr.parent, !.base = cr.base,
                   !.afterDisable = cr.afterDisable, !.afterConflict = cr.afterConflict,
                   !.had = (cr.id \in DOMAIN cr.prePool),
                   !.hadRec = (cr.id \in DOMAIN cr.preDb),
                   !.imp = cr.imp, !.ran = cr.ran]

\* The call in slot c settles with outcome out.  An import issued by
\* importPool then runs the callbacks of lines 216-227; the remove of line 225
\* is issued and not awaited.
Settle(c, cr, out) ==
  IF cr.op = "child"
  THEN /\ calls' = [calls EXCEPT ![c] = Leftover(cr, PsOutcome(out), out)]
       /\ loadStats' = Append(loadStats,
                              [id |-> cr.id, ok |-> out.ok, error |-> out.msg])
       /\ pendingRemoves' = IF out.ok THEN pendingRemoves
                            ELSE pendingRemoves \cup {cr.id}
  ELSE /\ calls' = [calls EXCEPT ![c] =
                      Leftover(cr, IF out.ok THEN "resolved" ELSE "rejected", out)]
       /\ UNCHANGED <<loadStats, pendingRemoves>>

\* check, lines 338-354, up to the await of pluginExports: the static code
\* validator when it runs, then the script in the sandbox.
check_enter(cr, jscode, options) ==
  IF RunsValidator(options) /\ jscode.imp
  THEN [cr EXCEPT !.imp = TRUE, !.exec = Failure("Cannot import modules", "static")]
  ELSE LET code == IF RunsValidator(options) THEN Minify(jscode) ELSE jscode
           r == pluginExports(code)
           run == [cr EXCEPT !.jscode = code, !.imp = jscode.imp, !.ran = TRUE]
       IN IF ~r.ok
          THEN [run EXCEPT !.exec = Failure(r.msg, "exec")]
          ELSE [run EXCEPT !.exec = NoOut, !.PluginClass = r.exports]

\* import, lines 244-257: the input is resolved and check is entered; the call
\* is suspended at the await of pluginExports.
import_enter(cr, pluginFilePath, jscode, options) ==
  LET base == [cr EXCEPT !.opts = options, !.pc = "exec"] IN
  IF ~isNull(pluginFilePath) /\ ~existsSync(pluginFilePath.path)
  THEN [base EXCEPT !.exec = Failure("Plugin file not found", "input")]
  ELSE LET text == IF ~isNull(pluginFilePath)
                   THEN readFileSync(pluginFilePath.path) ELSE jscode
       IN IF isNull(text)
          THEN [base EXCEPT !.exec = Failure("Plugin jscode not found", "input")]
          ELSE check_enter(base, text, options)

\* importJSCode(jscode, options)
StartImportJSCode(c, conc) ==
  /\ CanStart(c, conc)
  /\ \E jscode \in Sources, o \in OptionSets :
       calls' = [calls EXCEPT ![c] =
                   import_enter(Fresh(c, "importJSCode", <<>>), Null, jscode, o)]
  /\ UNCHANGED <<pluginsPool, pluginsStore, db, loadStats, pendingRemoves, nloads,
                 cand, verdict, sbx, net>>

\* importPluginFile(pluginFilePath, options)
StartImportPluginFile(c, conc) ==
  /\ CanStart(c, conc)
  /\ \E path \in Paths, o \in OptionSets :
       calls' = [calls EXCEPT ![c] =
                   import_enter(Fresh(c, "importPluginFile", <<>>),
                                [path |-> path], Null, o)]
  /\ UNCHANGED <<pluginsPool, pluginsStore, db, loadStats, pendingRemoves, nloads,
                 cand, verdict, sbx, net>>

\* The duplicate-id test left out.
DuplicateRejected_NoTest(options, ID) == FALSE

\* line 356: if (!options?.force && this.pluginsPool.has(plugin.ID))
DuplicateRejected(options, ID) == ~options.force /\ ID \in DOMAIN pluginsPool

\* check, lines 354-359, after the await of pluginExports: a failure of the
\* first part is thrown, else _isPlugin and the duplicate-id test run.  A call
\* made without an id is about the exported ID from here on.
ImportCheck(c) ==
  /\ calls[c].pc = "exec"
  /\ LET cr == calls[c] IN
       IF ~cr.exec.ok THEN Settle(c, cr, cr.exec)
       ELSE LET v == _isPlugin(cr.PluginClass)
                known == IF cr.id = <<>> /\ isString(cr.PluginClass.ID)
                         THEN [cr EXCEPT !.id = cr.PluginClass.ID.v] ELSE cr
            IN
         IF ~v.ok THEN Settle(c, known, Failure(v.msg, "schema"))
         ELSE IF DuplicateRejected(cr.opts, cr.PluginClass.ID.v)
           THEN Settle(c, known, Failure("Plugin exists ID", "duplicate"))
         ELSE /\ calls' = [calls EXCEPT ![c] = [known EXCEPT !.pc = "checked"]]
              /\ UNCHANGED <<loadStats, pendingRemoves>>
  /\ UNCHANGED <<pluginsPool, pluginsStore, db, nloads, cand, verdict, sbx, net>>

\* The generations of the instances of plugin id that are referenced.
InstGens(x) == IF x = Null \/ x = Undef THEN {} ELSE {x.gen}
\* The generations of the stores of plugin id that are referenced: by the
\* cache, and by the instances they are bound into.
StoreGens(x) == IF x = Null \/ x = Undef THEN {} ELSE {x.store.gen}
UsedStoreGens(m, id) ==
  (IF id \in DOMAIN m THEN {m[id].gen} ELSE {})
  \cup (IF id \in DOMAIN pluginsPool THEN StoreGens(pluginsPool[id].instance) ELSE {})
  \cup UNION {StoreGens(calls[s].inst)
              \cup (IF id \in DOMAIN calls[s].prePool
                    THEN StoreGens(calls[s].prePool[id].instance) ELSE {})
              \cup (IF calls[s].p = Null THEN {} ELSE StoreGens(calls[s].p.instance))
              : s \in Slots}
\* line 83: storeCreateFunction(id, PLUGIN_STORE_MAX_BYTE_LENGTH): an object
\* distinct from every store referenced.
NewStore(m, id) ==
  [pid |-> id, max |-> PLUGIN_STORE_MAX_BYTE_LENGTH,
   gen |-> CHOOSE g \in 0..(2 * Cardinality(Slots) + 3) :
             g \notin UsedStoreGens(m, id) /\ \A h \in 0..(g - 1) : h \in UsedStoreGens(m, id)]

\* getPluginStore without the lookup: a store is created at every call.
getPluginStore_AlwaysCreate(m, id) == MapSet(m, id, NewStore(m, id))

\* getPluginStore, lines 78-86, on the map m: the map afterwards; the store
\* returned is the one the map then holds for id.
getPluginStore(m, id) ==
  IF id \in DOMAIN m THEN m
  ELSE MapSet(m, id, NewStore(m, id))

EntryGens(m, id) == IF id \in DOMAIN m THEN InstGens(m[id].instance) ELSE {}
UsedGens(id) ==
  EntryGens(pluginsPool, id)
  \cup UNION {InstGens(calls[s].inst) \cup EntryGens(calls[s].prePool, id)
              \cup (IF calls[s].p = Null THEN {} ELSE InstGens(calls[s].p.instance))
              : s \in Slots}
\* new PluginClass(...): an object distinct from every instance referenced.
NewInstance(id, store) ==
  [t |-> "instance", pid |-> id, store |-> store,
   gen |-> CHOOSE g \in 0..(Cardinality(Slots) + 2) :
             g \notin UsedGens(id) /\ \A h \in 0..(g - 1) : h \in UsedGens(id)]

\* The registry record with the instance kept whatever options.enable says.
RegistryRecord_KeepInstance(cr) ==
  [enable |-> cr.opts.enable, props |-> PropsOf(cr.PluginClass), instance |-> cr.inst]

\* lines 315-328: the record import registers
RegistryRecord(cr) ==
  [enable |-> cr.opts.enable, props |-> PropsOf(cr.PluginClass),
   instance |-> IF cr.opts.enable THEN cr.inst ELSE Null]

\* lines 309-313: the record import persists
PersistedRecord(cr) ==
  [id |-> cr.PluginClass.ID.v, jscode |-> cr.jscode, enable |-> cr.opts.enable]

\* import with the registration moved before the construction: an instance
\* whose constructor throws leaves a record without instance behind.
ImportConstruct_RegisterFirst(c) ==
  /\ calls[c].pc = "checked"
  /\ LET cr == calls[c]
         ID == cr.PluginClass.ID.v
         stores == getPluginStore(pluginsStore, ID)
         built == [cr EXCEPT !.inst = NewInstance(ID, stores[ID])]
     IN /\ pluginsStore' = stores
        /\ IF cr.PluginClass.ctorThrows
           THEN /\ Settle(c, cr, Failure("constructor threw", "construct"))
                /\ pluginsPool' = MapSet(pluginsPool, ID, RegistryRecord(cr))
           ELSE IF ~cr.opts.debug
           THEN /\ calls' = [calls EXCEPT ![c] =
                       [built EXCEPT !.pc = "put", !.io = "pending",
                                     !.w = PersistedRecord(built)]]
                /\ UNCHANGED <<pluginsPool, loadStats, pendingRemoves>>
           ELSE /\ pluginsPool' = MapSet(pluginsPool, ID, RegistryRecord(built))
                /\ Settle(c, built, Success)
  /\ UNCHANGED <<db, nloads, cand, verdict, sbx, net>>

\* import, lines 258-314, after the await of check: the store, the instance,
\* and either the put (suspended on it) or, in debug mode, the registration.
ImportConstruct(c) ==
  /\ calls[c].pc = "checked"
  /\ LET cr == calls[c]
         ID == cr.PluginClass.ID.v
         stores == getPluginStore(pluginsStore, ID)
         built == [cr EXCEPT !.inst = NewInstance(ID, stores[ID])]
     IN /\ pluginsStore' = stores
        /\ IF cr.PluginClass.ctorThrows
           THEN /\ Settle(c, cr, Failure("constructor threw", "construct"))
                /\ UNCHANGED pluginsPool
           ELSE IF ~cr.opts.debug
           THEN /\ calls' = [calls EXCEPT ![c] =
                       [built EXCEPT !.pc = "put", !.io = "pending",
                                     !.w = PersistedRecord(built)]]
                /\ UNCHANGED <<pluginsPool, loadStats, pendingRemoves>>
           ELSE /\ pluginsPool' = MapSet(pluginsPool, ID, RegistryRecord(built))
                /\ Settle(c, built, Success)
  /\ UNCHANGED <<db, nloads, cand, verdict, sbx, net>>

\* The persistence collaborator carries out a put: the record is stored, or
\* the put fails and stores nothing.
DbPut(c) ==
  /\ calls[c].pc \in {"put", "e_put", "d_put"}
  /\ calls[c].io = "pending"
  /\ \E ok \in BOOLEAN :
       /\ db' = IF ok THEN MapSet(db, calls[c].w.id, calls[c].w) ELSE db
       /\ calls' = [calls EXCEPT ![c].io = IF ok THEN "ok" ELSE "fail"]
  /\ UNCHANGED <<pluginsPool, pluginsStore, loadStats, pendingRemoves, nloads,
                 cand, verdict, sbx, net>>

\* Registration whatever became of the put: a failed put is ignored.
PutAllowsRegistration_BestEffort(io) == TRUE

\* line 309: await put(...) inside the try block: a failed put throws, and
\* line 315 is reached only after a put that succeeded.
PutAllowsRegistration(io) == io = "ok"

\* import, lines 309-329, after the await of put.
ImportSet(c) ==
  /\ calls[c].pc = "put"
  /\ calls[c].io \in {"ok", "fail"}
  /\ LET cr == calls[c] IN
       IF PutAllowsRegistration(cr.io)
       THEN /\ pluginsPool' =
                 MapSet(pluginsPool, cr.PluginClass.ID.v, RegistryRecord(cr))
            /\ Settle(c, cr, Success)
       ELSE /\ Settle(c, cr, Failure("put failed", "persist"))
            /\ UNCHANGED pluginsPool
  /\ UNCHANGED <<pluginsStore, db, nloads, cand, verdict, sbx, net>>

\* pluginsPool.get(id)
PoolGet(id) == IF id \in DOMAIN pluginsPool THEN pluginsPool[id] ELSE Undef
\* GLOBAL_DB.store.pluginsJSCode.getById(id)
getById(id) == IF id \in DOMAIN db THEN db[id] ELSE Null

\* enable(id), up to the await of getById
StartEnable(c, conc) ==
  /\ CanStart(c, conc)
  /\ \E id \in OpIds :
       calls' = [calls EXCEPT ![c] = [Fresh(c, "enable", id) EXCEPT !.pc = "e_get"]]
  /\ UNCHANGED <<pluginsPool, pluginsStore, db, loadStats, pendingRemoves, nloads,
                 cand, verdict, sbx, net>>

\* enable, lines 109-117: the record and the registry entry are looked up and
\* the put of the record with enable: true is issued.
EnableGet(c) ==
  /\ calls[c].pc = "e_get"
  /\ LET cr == calls[c]
         plugin == getById(cr.id)
         p == PoolGet(cr.id)
     IN IF isNull(plugin) \/ p = Undef
        THEN Settle(c, cr, Failure("Cannot find plugin", "notfound"))
        ELSE /\ calls' = [calls EXCEPT ![c] =
                    [cr EXCEPT !.pc = "e_put", !.io = "pending", !.rec = plugin,
                               !.p = p, !.w = [plugin EXCEPT !.enable = TRUE]]]
             /\ UNCHANGED <<loadStats, pendingRemoves>>
  /\ UNCHANGED <<pluginsPool, pluginsStore, db, nloads, cand, verdict, sbx, net>>

\* enable, lines 118-122, after the await of put: the persisted source is
\* imported again with force, minify and enable set.
EnableImport(c) ==
  /\ calls[c].pc = "e_put"
  /\ calls[c].io \in {"ok", "fail"}
  /\ LET cr == calls[c] IN
       IF cr.io = "fail" THEN Settle(c, cr, Failure("put failed", "persist"))
       ELSE /\ calls' = [calls EXCEPT ![c] =
                   import_enter([cr EXCEPT !.io = "none"], Null, cr.rec.jscode,
                                Options(TRUE, "true", FALSE, TRUE))]
            /\ UNCHANGED <<loadStats, pendingRemoves>>
  /\ UNCHANGED <<pluginsPool, pluginsStore, db, nloads, cand, verdict, sbx, net>>

\* disable(id), up to the await of getById
StartDisable(c, conc) ==
  /\ CanStart(c, conc)
  /\ \E id \in OpIds :
       calls' = [calls EXCEPT ![c] = [Fresh(c, "disable", id) EXCEPT !.pc = "d_get"]]
  /\ UNCHANGED <<pluginsPool, pluginsStore, db, loadStats, pendingRemoves, nloads,
                 cand, verdict, sbx, net>>

\* disable, lines 89-97
DisableGet(c) ==
  /\ calls[c].pc = "d_get"
  /\ LET cr == calls[c]
         plugin == getById(cr.id)
         p == PoolGet(cr.id)
     IN IF isNull(plugin) \/ p = Undef
        THEN Settle(c, cr, Failure("Cannot find plugin", "notfound"))
        ELSE /\ calls' = [calls EXCEPT ![c] =
                    [cr EXCEPT !.pc = "d_put", !.io = "pending", !.rec = plugin,
                               !.p = p, !.w = [plugin EXCEPT !.enable = FALSE]]]
             /\ UNCHANGED <<loadStats, pendingRemoves>>
  /\ UNCHANGED <<pluginsPool, pluginsStore, db, nloads, cand, verdict, sbx, net>>

\* The entry disable would leave if it kept the live instance.
DisabledRecord_KeepInstance(p) ==
  [enable |-> FALSE, props |-> p.props, instance |-> p.instance]

\* lines 98-102: the entry disable leaves
DisabledRecord(p) == [enable |-> FALSE, props |-> p.props, instance |-> Null]

\* disable, lines 98-102, after the await of put
DisableSet(c) ==
  /\ calls[c].pc = "d_put"
  /\ calls[c].io \in {"ok", "fail"}
  /\ LET cr == calls[c] IN
       IF cr.io = "fail"
       THEN /\ Settle(c, cr, Failure("put failed", "persist"))
            /\ UNCHANGED pluginsPool
       ELSE /\ pluginsPool' = MapSet(pluginsPool, cr.id, DisabledRecord(cr.p))
            /\ Settle(c, cr, Success)
  /\ UNCHANGED <<pluginsStore, db, nloads, cand, verdict, sbx, net>>

\* delete(id), up to the await of remove
StartDelete(c, conc) ==
  /\ CanStart(c, conc)
  /\ \E id \in OpIds :
       calls' = [calls EXCEPT ![c] =
                   [Fresh(c, "delete", id) EXCEPT !.pc = "x_rm", !.io = "pending"]]
  /\ UNCHANGED <<pluginsPool, pluginsStore, db, loadStats, pendingRemoves, nloads,
                 cand, verdict, sbx, net>>

\* The persistence collaborator carries out the remove of a delete call: the
\* record is removed, or the remove fails and removes nothing.
DbRemove(c) ==
  /\ calls[c].pc = "x_rm"
  /\ calls[c].io = "pending"
  /\ \E ok \in BOOLEAN :
       /\ db' = IF ok THEN MapDel(db, calls[c].id) ELSE db
       /\ calls' = [calls EXCEPT ![c].io = IF ok THEN "ok" ELSE "fail"]
  /\ UNCHANGED <<pluginsPool, pluginsStore, loadStats, pendingRemoves, nloads,
                 cand, verdict, sbx, net>>

\* delete, lines 195-198: pluginsStore is not touched.
StoresAfterDelete(m, id) == m

\* delete, line 197, after the await of remove; a remove that failed throws
\* out of delete.
DeleteSet(c) ==
  /\ calls[c].pc = "x_rm"
  /\ calls[c].io \in {"ok", "fail"}
  /\ IF calls[c].io = "fail"
     THEN /\ Settle(c, calls[c], Failure("remove failed", "persist"))
          /\ UNCHANGED <<pluginsPool, pluginsStore>>
     ELSE /\ pluginsPool' = MapDel(pluginsPool, calls[c].id)
          /\ pluginsStore' = StoresAfterDelete(pluginsStore, calls[c].id)
          /\ Settle(c, calls[c], Success)
  /\ UNCHANGED <<db, nloads, cand, verdict, sbx, net>>

\* The persistence collaborator carries out a remove that importPool issued
\* at line 225 without awaiting it.
BgRemove(id) ==
  /\ id \in pendingRemoves
  /\ db' = MapDel(db, id)
  /\ pendingRemoves' = pendingRemoves \ {id}
  /\ UNCHANGED <<pluginsPool, pluginsStore, loadStats, calls, nloads, cand, verdict, sbx, net>>

\* getAll(): the persisted records, in key order.
IdSeq == [k \in Ids |-> PluginIdOf(k)]
getAll ==
  LET Stored(id) == id \in DOMAIN db
      keys == SelectSeq(IdSeq, Stored)
  IN [i \in 1..Len(keys) |-> db[keys[i]]]

\* The positions in `all` of the records of chunk j.
ChunkOf(all, threads, j) ==
  {i \in 1..Len(all) :
     \E m \in 1..Len(chunkArray(all, threads)[j]) :
        chunkArray(all, threads)[j][m] = all[i]}
\* The slots of the imports of chunk j of an importPool call.
ChunkSlots(cr, j) == {ChildSlot(i) : i \in ChunkOf(cr.all, cr.threads, j)}

\* lines 210-228: every import of chunk j is issued, each up to its first await.
LaunchChunk(c, cr, j) ==
  [s \in Slots |->
     IF s = c THEN [cr EXCEPT !.pc = "p_chunk", !.chunk = j]
     ELSE IF s \in ChunkSlots(cr, j)
     THEN LET rec == cr.all[s - MaxTop] IN
          import_enter([IdleCall EXCEPT !.op = "child", !.k = s - MaxTop,
                                        !.id = rec.id, !.parent = c, !.chunk = j],
                       Null, rec.jscode, Options(TRUE, "false", FALSE, rec.enable))
     ELSE calls[s]]

\* importPool(), up to the await of getAll.  One importPool runs at a time.
StartImportPool(c, conc) ==
  /\ CanStart(c, conc)
  /\ nloads < MaxLoads
  /\ \A d \in Slots : calls[d].op \in {"importPool", "child"} => ~InFlight(d)
  /\ calls' = [s \in Slots |->
                 IF s = c THEN [Fresh(c, "importPool", <<>>) EXCEPT
                                  !.pc = "p_getAll", !.base = Len(loadStats)]
                 ELSE IF s \in Children THEN IdleCall ELSE calls[s]]
  /\ nloads' = nloads + 1
  /\ UNCHANGED <<pluginsPool, pluginsStore, db, loadStats, pendingRemoves, cand, verdict, sbx, net>>

\* importPool, lines 202-229, after the await of getAll: null ends the call;
\* else the records are chunked by threadsNumber and the first chunk is issued.
PoolGetAll(c) ==
  /\ calls[c].pc = "p_getAll"
  /\ \E isnull \in BOOLEAN, threadsNumber \in 1..MaxThreads :
       LET cr == [calls[c] EXCEPT !.all = getAll, !.threads = threadsNumber] IN
       IF isnull \/ cr.all = <<>>
       THEN Settle(c, calls[c], Success)
       ELSE /\ calls' = LaunchChunk(c, cr, 1)
            /\ UNCHANGED <<loadStats, pendingRemoves>>
  /\ UNCHANGED <<pluginsPool, pluginsStore, db, nloads, cand, verdict, sbx, net>>

\* Promise.race in place of Promise.all: one settled import is enough.
ChunkAwaited_Any(cr, j) == \E s \in ChunkSlots(cr, j) : calls[s].pc = "resolved"

\* line 229: await Promise.all(ps) resumes when every promise of ps resolved
ChunkAwaited(cr, j) == \A s \in ChunkSlots(cr, j) : calls[s].pc = "resolved"

\* line 229: Promise.all(ps) rejects as soon as one promise of ps rejected
ChunkRejected(cr, j) == \E s \in ChunkSlots(cr, j) : calls[s].pc = "rejected"

\* importPool, lines 209-235, after the await of Promise.all: the next chunk
\* is issued, or the call ends.
PoolNext(c) ==
  /\ calls[c].pc = "p_chunk"
  /\ LET cr == calls[c] IN
       IF ChunkRejected(cr, cr.chunk)
       THEN Settle(c, cr, Failure("import failed", "chunk"))
       ELSE /\ ChunkAwaited(cr, cr.chunk)
            /\ IF cr.chunk < Len(chunkArray(cr.all, cr.threads))
               THEN /\ calls' = LaunchChunk(c, cr, cr.chunk + 1)
                    /\ UNCHANGED <<loadStats, pendingRemoves>>
               ELSE Settle(c, cr, Success)
  /\ UNCHANGED <<pluginsPool, pluginsStore, db, nloads, cand, verdict, sbx, net>>

\* What the persistence collaborator may hold when the program starts:
\* nothing, or records an earlier session left, one of which may hold a script
\* that no longer loads.
StoredRecord(k, kind) ==
  [id |-> PluginIdOf(k), jscode |-> Minify(Source(k, kind, FALSE)), enable |-> k # 2]
StoredDb(m, bad, kind) ==
  [id \in {PluginIdOf(k) : k \in 1..m} |->
     LET k == CHOOSE k \in 1..m : PluginIdOf(k) = id
     IN StoredRecord(k, IF k = bad THEN kind ELSE "good")]
\* Before importPool runs: up to NumIds records.
InitDbs ==
  {StoredDb(m, bad, kind) : m \in 0..NumIds, bad \in 0..NumIds,
                            kind \in {"noexport", "ctor"}}
\* For the single-plugin calls: no record, or the record of plugin 1.
InitDbsSingle == {StoredDb(m, 0, "good") : m \in 0..1}

InitRegistry ==
  /\ pluginsPool = EmptyMap
  /\ pluginsStore = EmptyMap
  /\ loadStats = <<>>
  /\ pendingRemoves = {}
  /\ calls = [s \in Slots |-> IdleCall]
  /\ nloads = 0
  /\ cand = Null
  /\ verdict = Null
  /\ sbx = RunStart
  /\ net = NetStart([enableProxy |-> FALSE, proxy |-> Undef])

Init == InitRegistry /\ db \in InitDbsSingle

InitPool == InitRegistry /\ db \in InitDbs

StepImport ==
  \/ \E c \in Slots : ImportCheck(c)
  \/ \E c \in Slots : ImportConstruct(c)
  \/ \E c \in Slots : DbPut(c)
  \/ \E c \in Slots : ImportSet(c)

StepSingle ==
  \/ \E c \in Top : EnableGet(c)
  \/ \E c \in Top : EnableImport(c)
  \/ \E c \in Top : DisableGet(c)
  \/ \E c \in Top : DisableSet(c)
  \/ \E c \in Top : DbRemove(c)
  \/ \E c \in Top : DeleteSet(c)

StepPool ==
  \/ \E c \in Top : PoolGetAll(c)
  \/ \E c \in Top : PoolNext(c)
  \/ \E id \in DOMAIN IdSeq : BgRemove(IdSeq[id])

StartSingle(conc) ==
  \/ \E c \in Top : StartImportJSCode(c, conc)
  \/ \E c \in Top : StartImportPluginFile(c, conc)
  \/ \E c \in Top : StartEnable(c, conc)
  \/ \E c \in Top : StartDisable(c, conc)
  \/ \E c \in Top : StartDelete(c, conc)

\* The single-plugin calls, made one after the other, each awaited.
Next == StartSingle(FALSE) \/ StepImport \/ StepSingle
Spec == Init /\ [][Next]_vars

\* importPool over what an earlier session persisted.
NextPool == (\E c \in Top : StartImportPool(c, FALSE)) \/ StepImport \/ StepPool
SpecPool == InitPool /\ [][NextPool]_vars


\* Import calls made without awaiting the one before: the caller makes one
\* call per slot, the second while the first is suspended at an await.
ConcurrentImportJSCode(c) == calls[c].op = "none" /\ StartImportJSCode(c, TRUE)
ConcurrentImportPluginFile(c) == calls[c].op = "none" /\ StartImportPluginFile(c, TRUE)
NextRace ==
  \/ \E c \in Top : ConcurrentImportJSCode(c)
  \/ \E c \in Top : ConcurrentImportPluginFile(c)
  \/ StepImport
SpecRace == Init /\ [][NextRace]_vars

\* The registry after importJSCode(source of plugin 1, {force: true,
\* enable: false}) completed: the plugin is registered without instance, its
\* store is cached and its record is persisted.
LoadedPool ==
  MapSet(EmptyMap, PluginIdOf(1),
         [enable |-> FALSE, props |-> PropsOf(Descriptor(1)), instance |-> Null])
LoadedStores ==
  MapSet(EmptyMap, PluginIdOf(1),
         [pid |-> PluginIdOf(1), max |-> PLUGIN_STORE_MAX_BYTE_LENGTH, gen |-> 0])
LoadedDb ==
  MapSet(EmptyMap, PluginIdOf(1),
         [id |-> PluginIdOf(1), jscode |-> Source(1, "good", FALSE), enable |-> FALSE])
InitLoaded ==
  /\ pluginsPool = LoadedPool
  /\ pluginsStore = LoadedStores
  /\ db = LoadedDb
  /\ loadStats = <<>>
  /\ pendingRemoves = {}
  /\ calls = [s \in Slots |-> IdleCall]
  /\ nloads = 0
  /\ cand = Null
  /\ verdict = Null
  /\ sbx = RunStart
  /\ net = NetStart([enableProxy |-> FALSE, proxy |-> Undef])

\* delete, enable and import calls made without awaiting the one before: one
\* call per slot, the second while the first is suspended at an await.
ConcurrentDelete(c) == calls[c].op = "none" /\ StartDelete(c, TRUE)
ConcurrentEnable(c) == calls[c].op = "none" /\ StartEnable(c, TRUE)
NextDelete ==
  \/ \E c \in Top : ConcurrentDelete(c)
  \/ \E c \in Top : ConcurrentEnable(c)
  \/ \E c \in Top : ConcurrentImportJSCode(c)
  \/ StepImport
  \/ \E c \in Top : EnableGet(c)
  \/ \E c \in Top : EnableImport(c)
  \/ \E c \in Top : DbRemove(c)
  \/ \E c \in Top : DeleteSet(c)
SpecDelete == InitLoaded /\ [][NextDelete]_vars

\* PluginFilter, or no filter at all: enable and group may be left unset.
NoFilter == [enable |-> "unset", group |-> "unset"]
Filters ==
  [enable : {"unset", "true", "false"},
   group : {"unset", <<>>, Descriptor(1).GROUP.v, <<"b", "l", "o", "g">>}]
\* lines 162-166: filter = {enable: true, group: '', ...filter}
WithDefaults(filter) ==
  [enable |-> IF filter.enable = "unset" THEN TRUE ELSE filter.enable = "true",
   group |-> IF filter.group = "unset" THEN <<>> ELSE filter.group]

\* getPluginsByType without the filter on the instance.
getPluginsByType_AnyInstance(type, filter) ==
  LET f == WithDefaults(filter)
      byType == {id \in DOMAIN pluginsPool :
                   /\ pluginsPool[id].props.TYPE = Num(type)
                   /\ ~(f.group # <<>> /\ f.group # pluginsPool[id].props.GROUP.v)}
      byEnable == {id \in byType : pluginsPool[id].enable = f.enable}
  IN {[props |-> pluginsPool[id].props, instance |-> pluginsPool[id].instance] :
        id \in byEnable}

\* getPluginsByType, lines 158-185: the three filters, then the map.
getPluginsByType(type, filter) ==
  LET f == WithDefaults(filter)
      byType == {id \in DOMAIN pluginsPool :
                   /\ pluginsPool[id].props.TYPE = Num(type)
                   /\ ~(f.group # <<>> /\ f.group # pluginsPool[id].props.GROUP.v)}
      byEnable == {id \in byType : pluginsPool[id].enable = f.enable}
      byInstance == {id \in byEnable : ~isNull(pluginsPool[id].instance)}
  IN {[props |-> pluginsPool[id].props, instance |-> pluginsPool[id].instance] :
        id \in byInstance}

\* getPluginStore(id), a synchronous call: lines 78-86.
GetPluginStore(id) ==
  /\ pluginsStore' = getPluginStore(pluginsStore, id)
  /\ UNCHANGED <<pluginsPool, db, loadStats, pendingRemoves, calls, nloads,
                 cand, verdict, sbx, net>>

\* Every public call of the registry, made one after the other: the
\* single-plugin calls, importPool, and getPluginStore at any moment.
NextAll ==
  \/ StartSingle(FALSE)
  \/ \E c \in Top : StartImportPool(c, FALSE)
  \/ StepImport
  \/ StepSingle
  \/ StepPool
  \/ \E id \in OpIds : GetPluginStore(id)
SpecAll == Init /\ [][NextAll]_vars

(***************************************************************************)
(* The schema validator on its own: _isPlugin applied to candidate         *)
(* exports.                                                                *)
(***************************************************************************)
MaxIdLen == 33    \* longest ID tried

\* Characters of an ID: of the class, white space, and outside the class.
Chars == IdChars \cup WhiteSpace \cup {"!", "."}
\* n characters, all "a" but the one at position p (none when p = 0).
IdString(n, p, ch) == [i \in 1..n |-> IF i = p THEN ch ELSE "a"]
IdStrings ==
  {IdString(n, p, ch) : n \in 0..MaxIdLen, p \in 0..MaxIdLen, ch \in Chars}
  \cup {[i \in 1..n |-> ch] : n \in {ID_MIN, ID_MAX}, ch \in Chars}

MethodValues == {Fn, Undef, Obj, Null}
Protos == [search : MethodValues, getDetail : MethodValues, getTextContent : MethodValues]
TypeValues == {Undef, Str(<<"0">>), Num(-1), Num(BOOK_SOURCE), Num(BOOK_STORE), Num(2), Num(3)}
Word(n) == [i \in 1..n |-> "x"]
TextValues(max) ==
  {Undef, Num(1), Str(<<>>), Str(Word(1)), Str(Word(max)), Str(Word(max + 1)),
   Str(<<" ", "x">>), Str(<<"x", " ">>)}
FileUrlValues ==
  {Undef, Num(1), Str(<<>>), Str(<<" ">>), Str(<<"http://", "host", ".js">>),
   Str(<<"HTTPS://", "host", ".JS">>), Str(<<"http://", "host">>),
   Str(<<"ftp://", "host", ".js">>), Str(<<".js">>)}
BaseUrlValues ==
  {Undef, Num(1), Str(<<>>), Str(<<" ">>), Str(<<"https://", "host">>),
   Str(<<"HTTP://">>), Str(<<"ftp://", "host">>), Str(<<"host">>)}

\* The descriptor of section 8 of the specification, varied one field at a
\* time, and TYPE together with the prototype and BASE_URL.
Candidates ==
  {[Descriptor(1) EXCEPT !.ID = Str(s)] : s \in IdStrings}
  \cup {[Descriptor(1) EXCEPT !.ID = v] : v \in {Undef, Num(16)}}
  \cup {[Descriptor(1) EXCEPT !.TYPE = ty, !.prototype = pr, !.BASE_URL = b] :
          ty \in TypeValues, pr \in Protos,
          b \in {Descriptor(1).BASE_URL, Str(<<"ftp://", "host">>)}}
  \cup {[Descriptor(1) EXCEPT !.GROUP = v] : v \in TextValues(GROUP_MAX)}
  \cup {[Descriptor(1) EXCEPT !.NAME = v] : v \in TextValues(NAME_MAX)}
  \cup {[Descriptor(1) EXCEPT !.VERSION = v] : v \in TextValues(VERSION_MAX)}
  \cup {[Descriptor(1) EXCEPT !.VERSION_CODE = v] : v \in {Undef, Str(<<"1">>), Num(0)}}
  \cup {[Descriptor(1) EXCEPT !.PLUGIN_FILE_URL = v] : v \in FileUrlValues}
  \cup {[Descriptor(1) EXCEPT !.BASE_URL = v] : v \in BaseUrlValues}

InitValidate ==
  /\ pluginsPool = EmptyMap
  /\ pluginsStore = EmptyMap
  /\ db = EmptyMap
  /\ loadStats = <<>>
  /\ pendingRemoves = {}
  /\ calls = [s \in Slots |-> IdleCall]
  /\ nloads = 0
  /\ cand \in Candidates
  /\ verdict = Null
  /\ sbx = RunStart
  /\ net = NetStart([enableProxy |-> FALSE, proxy |-> Undef])

\* _isPlugin(cand): what it throws, or that it returns.
Validate ==
  /\ verdict = Null
  /\ verdict' = _isPlugin(cand)
  /\ UNCHANGED <<pluginsPool, pluginsStore, db, loadStats, pendingRemoves, calls,
                 nloads, cand, sbx, net>>

NextValidate == Validate
SpecValidate == InitValidate /\ [][NextValidate]_vars

(***************************************************************************)
(* runScript on its own: the script is run with the proxy of the container *)
(* as its scope (with(sandbox){...}), one operation at a time.  A script   *)
(* can catch what the handler throws and go on.                            *)
(***************************************************************************)
MaxWrites == 1    \* slots one script assigns

rest == <<pluginsPool, pluginsStore, db, loadStats, pendingRemoves, calls, nloads,
          cand, verdict>>

\* The script reads the identifier p: has() answers true for every name, so
\* the read goes to handler.get of the container.
ScriptIdentifier(p) ==
  /\ LET r == HandlerGet("sandbox", p, sbx.written)
     IN sbx' = [sbx EXCEPT !.cur = r.v, !.last = Operation("identifier", "sandbox", p, r)]
  /\ UNCHANGED <<rest, net>>

\* The script reads member p of the value it holds: through handler.get
\* when the value is a proxy, an ordinary property read when it is not.
ScriptMember(p) ==
  /\ sbx.cur.t = "ref"
  /\ LET r == IF sbx.cur.wrapped THEN HandlerGet(sbx.cur.o, p, sbx.written)
               ELSE Yields(ReflectGet(sbx.cur.o, p, sbx.written))
     IN sbx' = [sbx EXCEPT !.cur = r.v, !.last = Operation("member", sbx.cur.o, p, r)]
  /\ UNCHANGED <<rest, net>>

\* The outcome of an assignment to slot p of target, made through the
\* handler (handler.set, lines 559-564) or on the bare object.
AssignOutcome(target, p, wrapped) ==
  IF ~wrapped \/ HandlerSetAllows(target, p) THEN Yields(Prim)
  ELSE Denied("Permission denied to set property or function [" \o p \o "]")

\* The script assigns to the identifier p: handler.set of the container.
ScriptAssignIdentifier(p) ==
  /\ LET r == AssignOutcome("sandbox", p, TRUE)
         w == IF r.outcome = "value" THEN sbx.written \cup {<<"sandbox", p>>}
              ELSE sbx.written
     IN /\ Cardinality(w) <= MaxWrites
        /\ sbx' = [sbx EXCEPT !.written = w,
                               !.last = Operation("assign", "sandbox", p, r)]
  /\ UNCHANGED <<rest, net>>

\* The script assigns to member p of the value it holds.
ScriptAssignMember(p) ==
  /\ sbx.cur.t = "ref"
  /\ LET r == AssignOutcome(sbx.cur.o, p, sbx.cur.wrapped)
         w == IF r.outcome = "value" THEN sbx.written \cup {<<sbx.cur.o, p>>}
              ELSE sbx.written
     IN /\ Cardinality(w) <= MaxWrites
        /\ sbx' = [sbx EXCEPT !.written = w,
                               !.last = Operation("assign", sbx.cur.o, p, r)]
  /\ UNCHANGED <<rest, net>>

InitSandbox == InitRegistry /\ db = EmptyMap
NextSandbox ==
  \/ \E p \in ScriptNames : ScriptIdentifier(p)
  \/ \E p \in ScriptNames : ScriptMember(p)
  \/ \E p \in AssignNames : ScriptAssignIdentifier(p)
  \/ \E p \in AssignNames : ScriptAssignMember(p)
SpecSandbox == InitSandbox /\ [][NextSandbox]_vars

(***************************************************************************)
(* The request object of a constructed instance: the plugin calls          *)
(* request.get and request.post while the user changes the settings.       *)
(***************************************************************************)
\* The user changes the proxy settings.
ChangeSettings ==
  /\ \E s \in SettingsValues \ {net.settings} : net' = [net EXCEPT !.settings = s]
  /\ UNCHANGED <<rest, sbx>>

\* request.get / request.post, lines 271-298: the proxy is decided from the
\* settings as they are now; the transport is called, or the call throws.
PluginRequest(method, config) ==
  LET d == ProxyFor(config, net.settings) IN
  IF d.ok
  THEN /\ Len(net.sent) < MaxRequests
       /\ net' = [net EXCEPT !.sent = Append(@, Dispatched(method, d.proxy)),
                             !.last = [method |-> method, config |-> config,
                                       ok |-> TRUE, msg |-> ""]]
  ELSE net' = [net EXCEPT !.last = [method |-> method, config |-> config,
                                    ok |-> FALSE, msg |-> "Proxy not enabled"]]

RequestGet ==
  /\ \E config \in RequestConfigs : PluginRequest("get", config)
  /\ UNCHANGED <<rest, sbx>>

RequestPost ==
  /\ \E config \in RequestConfigs : PluginRequest("post", config)
  /\ UNCHANGED <<rest, sbx>>

InitRequest == InitRegistry /\ db = EmptyMap
NextRequest == ChangeSettings \/ RequestGet \/ RequestPost
SpecRequest == InitRequest /\ [][NextRequest]_vars

(***************************************************************************)
(* The claims.                                                             *)
(***************************************************************************)
ImportOps == {"importJSCode", "importPluginFile"}

\* Two JavaScript values are the same value.
SameValue(a, b) == a.t = b.t /\ (a.t \in {"string", "number"} => a.v = b.v)

\* C1: in every reachable state a registry record has an instance only if
\* its enabled flag is true; a record with enabled = false has no instance.
C1_InstanceOnlyIfEnabled ==
  \A id \in DOMAIN pluginsPool :
    /\ pluginsPool[id].instance # Null => pluginsPool[id].enable = TRUE
    /\ pluginsPool[id].enable = FALSE => pluginsPool[id].instance = Null

\* A disable has succeeded and left the record disabled, without instance.
C1_Witness ==
  \E c \in Top :
    /\ calls[c].op = "disable" /\ calls[c].pc = "resolved"
    /\ calls[c].id \in DOMAIN pluginsPool
    /\ pluginsPool[calls[c].id].enable = FALSE
    /\ pluginsPool[calls[c].id].instance = Null

\* C2: an import call that fails at input resolution, static validation,
\* sandboxed execution, schema validation, the duplicate-id check or instance
\* construction leaves the registry and the persisted records as they were
\* when the call started.
C2_FailedImportChangesNothing ==
  [][\A c \in Top :
       (/\ calls[c].op \in ImportOps
        /\ InFlight(c)
        /\ calls'[c].pc = "rejected"
        /\ calls'[c].out.stage \in
             {"input", "static", "exec", "schema", "duplicate", "construct"})
       => (pluginsPool' = calls[c].prePool /\ db' = calls[c].preDb)]_vars

\* An import of a registered, persisted plugin has failed in the constructor.
C2_Witness ==
  \E c \in Top :
    /\ calls[c].op \in ImportOps /\ calls[c].pc = "rejected"
    /\ calls[c].out.stage = "construct"
    /\ calls[c].had /\ calls[c].hadRec

\* C3: an import whose exported ID is registered and whose options do not set
\* force is rejected with the conflict error and leaves the registry as it
\* was; with force set the import is never rejected as a conflict, and when it
\* succeeds the registry record of the ID is the one this import built.
C3_ConflictUnlessForce ==
  [][\A c \in Top :
       (calls[c].op \in ImportOps /\ InFlight(c) /\ calls'[c].pc \in Settled) =>
         LET cr == calls[c]
             nx == calls'[c]
             present == nx.id \in DOMAIN cr.prePool
             reached == nx.out.stage \notin {"input", "static", "exec", "schema"}
         IN /\ (present /\ reached /\ ~cr.opts.force) =>
                 /\ nx.pc = "rejected"
                 /\ nx.out = Failure("Plugin exists ID", "duplicate")
                 /\ pluginsPool' = cr.prePool
            /\ (present /\ cr.opts.force) =>
                 /\ nx.out.stage # "duplicate"
                 /\ nx.pc = "resolved" =>
                      pluginsPool'[nx.id] =
                        [enable |-> cr.opts.enable, props |-> PropsOf(cr.PluginClass),
                         instance |-> IF cr.opts.enable THEN cr.inst ELSE Null]]_vars

\* After an import of a registered ID was rejected as a conflict, an import
\* with force of that ID has succeeded.
C3_Witness ==
  \E c \in Top :
    /\ calls[c].op \in ImportOps /\ calls[c].pc = "resolved"
    /\ calls[c].opts.force /\ calls[c].had /\ calls[c].afterConflict

C5_ChunkAfterChunk ==
  /\ \A c \in Top : calls[c].op = "importPool" =>
       Cardinality({s \in Children : InFlight(s)}) <= calls[c].threads
  /\ \A s, t \in Children :
       (calls[s].op = "child" /\ calls[t].op = "child" /\ calls[t].chunk < calls[s].chunk)
       => ~InFlight(t)

\* With threadsNumber = 2 an import of the second chunk is in flight, after a
\* first chunk of two imports.
C5_Witness ==
  \E c \in Top, s \in Children :
    /\ calls[c].op = "importPool" /\ calls[c].threads = 2
    /\ InFlight(s) /\ calls[s].chunk = 2
    /\ Cardinality({t \in Children : calls[t].op = "child" /\ calls[t].chunk = 1}) = 2

\* The outcomes an importPool call has appended to loadStats.
StatsOf(c) == SubSeq(loadStats, calls[c].base + 1, Len(loadStats))

\* C6: importPool never rejects because of a failed record; when it has
\* resolved, load stats hold exactly one outcome for every record read, a
\* record with a success outcome is registered, and a record whose script
\* loads has failed only if its own put failed.
C6_FailuresIsolated ==
  \A c \in Top : calls[c].op = "importPool" =>
    /\ calls[c].pc # "rejected"
    /\ calls[c].pc = "resolved" =>
         LET all == calls[c].all
             stats == StatsOf(c)
         IN /\ Len(stats) = Len(all)
            /\ \A i \in 1..Len(all) :
                 /\ Cardinality({j \in 1..Len(stats) : stats[j].id = all[i].id}) = 1
                 /\ \A j \in 1..Len(stats) : stats[j].id = all[i].id =>
                      /\ stats[j].ok => all[i].id \in DOMAIN pluginsPool
                      /\ ~stats[j].ok => stats[j].error # ""
                      /\ all[i].jscode.kind = "good" =>
                           (stats[j].ok \/ stats[j].error = "put failed")

\* importPool has resolved over three records: a failure was recorded, and
\* after it a success.
C6_Witness ==
  \E c \in Top :
    /\ calls[c].op = "importPool" /\ calls[c].pc = "resolved"
    /\ Len(calls[c].all) = 3
    /\ \E i, j \in 1..Len(StatsOf(c)) :
         i < j /\ ~StatsOf(c)[i].ok /\ StatsOf(c)[j].ok

\* C7: once importPool has resolved, the persisted record of every id whose
\* import failed is absent, and that of every id that loaded is present.
C7_QuarantinedWhenResolved ==
  \A c \in Top : (calls[c].op = "importPool" /\ calls[c].pc = "resolved") =>
    \A j \in 1..Len(StatsOf(c)) :
      IF StatsOf(c)[j].ok THEN StatsOf(c)[j].id \in DOMAIN db
      ELSE StatsOf(c)[j].id \notin DOMAIN db

C9_IdFormat ==
  (verdict # Null /\ isString(cand.ID)) =>
    LET s == cand.ID.v IN
    /\ (\/ Len(s) < ID_MIN \/ Len(s) > ID_MAX
        \/ \E i \in 1..Len(s) : s[i] \notin IdChars
        \/ (s # <<>> /\ (s[1] \in WhiteSpace \/ s[Len(s)] \in WhiteSpace)))
       => ~verdict.ok
    /\ (/\ Len(s) \in {ID_MIN, ID_MAX}
        /\ \A i \in 1..Len(s) : s[i] \in IdChars
        /\ \A f \in {"TYPE", "GROUP", "NAME", "VERSION", "VERSION_CODE",
                     "PLUGIN_FILE_URL", "BASE_URL"} : SameValue(cand[f], Descriptor(1)[f])
        /\ cand.prototype = GoodProto)
       => verdict.ok

\* C10: _isPlugin rejects every TYPE outside the enum; for BOOK_SOURCE it
\* accepts only with search, getDetail and getTextContent all functions, and
\* with the static fields valid it fails otherwise with the message of the
\* first method that is missing or no function; for BOOK_STORE it fails.
C10_TypeDispatch ==
  verdict # Null =>
    LET ty == cand.TYPE
        pr == cand.prototype
        m == <<pr.search, pr.getDetail, pr.getTextContent>>
        names == <<"search", "getDetail", "getTextContent">>
        bad == {i \in 1..3 : m[i] # Fn}
        first == CHOOSE i \in bad : \A j \in bad : i <= j
        staticValid ==
          \A f \in {"ID", "GROUP", "NAME", "VERSION", "VERSION_CODE",
                    "PLUGIN_FILE_URL", "BASE_URL"} : SameValue(cand[f], Descriptor(1)[f])
    IN /\ (~isNumber(ty) \/ ty.v \notin {BOOK_SOURCE, BOOK_STORE}) => ~verdict.ok
       /\ (isNumber(ty) /\ ty.v = BOOK_STORE) => ~verdict.ok
       /\ (isNumber(ty) /\ ty.v = BOOK_SOURCE) =>
            /\ verdict.ok => bad = {}
            /\ (staticValid /\ bad = {}) => verdict.ok
            /\ (staticValid /\ bad # {}) =>
                 /\ ~verdict.ok
                 /\ verdict.msg \in
                      {"Function [" \o names[first] \o "] not found",
                       "Property [" \o names[first] \o "] is not of function type"}

\* A BOOK_SOURCE candidate with search a function and getDetail an object was
\* rejected with the message about getDetail.
C10_Witness ==
  /\ verdict = Throw("Property [getDetail] is not of function type")
  /\ cand.TYPE = Num(BOOK_SOURCE)
  /\ cand.prototype.search = Fn
  /\ cand.prototype.getDetail = Obj

\* C11: an import call whose options do not have minify === false and whose
\* source holds a module-import construct is rejected by the static code
\* validator: the script is never executed and the call registers and
\* persists nothing.
C11_ImportConstructRejected ==
  \A c \in Top :
    (/\ calls[c].op \in ImportOps
     /\ calls[c].pc \in {"resolved", "rejected"}
     /\ calls[c].opts.minify # "false"
     /\ calls[c].imp)
    => /\ ~calls[c].ran
       /\ calls[c].pc = "rejected"
       /\ calls[c].out.stage = "static"

\* C12: inside the sandbox every read of an identifier that is not one of the
\* listed entries of the container, the names the container only inherits
\* included, fails with the permission-denied error naming the identifier,
\* and yields no value.
C12_UnlistedReadDenied ==
  (sbx.last.kind = "identifier" /\ sbx.last.name \notin AllowList)
  => /\ sbx.last.outcome = "denied"
     /\ sbx.last.msg = "Permission denied to access property or function ["
                          \o sbx.last.name \o "]"

\* C13: inside the sandbox every assignment to a slot of the container or of
\* an object reached from it by property reads fails with permission-denied,
\* but the one to plugin.exports; the only slot of the program's objects a
\* script has assigned is plugin.exports.
C13_OnlyExportsWritten ==
  /\ \A w \in sbx.written : w = <<"plugin", "exports">> \/ w[1] = FnOf("exported")
  /\ (/\ sbx.last.kind = "assign"
      /\ <<sbx.last.target, sbx.last.name>> # <<"plugin", "exports">>
      /\ sbx.last.target # FnOf("exported"))
     => sbx.last.outcome = "denied"

\* C14: a delete that completes leaves no persisted record, no registry
\* entry and no cached store for the id: a later getPluginStore(id) cannot
\* return the store that was cached before.
C14_DeleteDropsStore ==
  [][\A c \in Top :
       (calls[c].op = "delete" /\ InFlight(c) /\ calls'[c].pc = "resolved")
       => /\ calls[c].id \notin DOMAIN db'
          /\ calls[c].id \notin DOMAIN pluginsPool'
          /\ calls[c].id \notin DOMAIN pluginsStore']_vars

\* C15: in every reachable state every registry record belongs to a
\* descriptor the schema validator accepted: its props pass all the
\* static-field checks, its TYPE is BOOK_SOURCE, never BOOK_STORE, and it is
\* registered under its own ID.
C15_RegistryHoldsAcceptedPlugins ==
  \A id \in DOMAIN pluginsPool :
    LET props == pluginsPool[id].props IN
    /\ StaticChecks(props).ok
    /\ props.TYPE = Num(BOOK_SOURCE)
    /\ props.ID = Str(id)

\* A plugin is registered, and the import of a descriptor the schema
\* validator refuses has been rejected.
C15_Witness ==
  /\ DOMAIN pluginsPool # {}
  /\ \E c \in Top :
       /\ calls[c].op \in ImportOps /\ calls[c].pc = "rejected"
       /\ calls[c].out.stage = "schema"

C16_ProxyOnlyWhenEnabled ==
  [][(net' # net /\ net'.settings = net.settings /\ net'.last.config.proxy = "true") =>
       IF net.settings.enableProxy /\ net.settings.proxy # Undef
       THEN /\ net'.last.ok
            /\ net'.sent = Append(net.sent, Dispatched(net'.last.method, net.settings.proxy))
       ELSE /\ ~net'.last.ok
            /\ net'.last.msg = "Proxy not enabled"
            /\ net'.sent = net.sent]_vars

\* A call with config.proxy was dispatched with the proxy while the proxy
\* was enabled, and a later one failed after the settings had changed.
C16_Witness ==
  /\ net.sent # <<>>
  /\ net.sent[Len(net.sent)].proxy = ProxySetting
  /\ net.last.config.proxy = "true"
  /\ ~net.last.ok

\* The registry entries of a type, as getPluginsByType hands them out.
EntriesOf(ids) ==
  {[props |-> pluginsPool[id].props, instance |-> pluginsPool[id].instance] : id \in ids}

\* C18 as claimed: a query with filter.enable = false returns the disabled
\* plugins of the type.
C18_DisabledQueryReturnsDisabled ==
  \A type \in {BOOK_SOURCE, BOOK_STORE} :
    getPluginsByType(type, [NoFilter EXCEPT !.enable = "false"]) =
      EntriesOf({id \in DOMAIN pluginsPool :
                   pluginsPool[id].props.TYPE = Num(type) /\ ~pluginsPool[id].enable})

\* C18, amended: getPluginsByType(type, filter) returns exactly the registry
\* entries whose TYPE is type, whose enabled flag is filter.enable (true when
\* not given), whose instance is not null and whose GROUP is filter.group
\* when a non-empty group is given; every returned entry has an instance, and
\* a query with filter.enable = false returns no entry.
C18_QueryByType ==
  \A type \in {BOOK_SOURCE, BOOK_STORE}, filter \in Filters :
    LET wantEnable == filter.enable # "false"
        wantGroup == IF filter.group = "unset" THEN <<>> ELSE filter.group
        result == getPluginsByType(type, filter)
    IN /\ result = EntriesOf({id \in DOMAIN pluginsPool :
                                /\ pluginsPool[id].props.TYPE.v = type
                                /\ pluginsPool[id].enable = wantEnable
                                /\ pluginsPool[id].instance # Null
                                /\ wantGroup # <<>> =>
                                     pluginsPool[id].props.GROUP.v = wantGroup})
       /\ \A e \in result : e.instance # Null
       /\ filter.enable = "false" => result = {}

\* An enabled and a disabled plugin are registered: the default query returns
\* the enabled one, the query for disabled plugins returns nothing.
C18_Witness ==
  /\ \E id \in DOMAIN pluginsPool : ~pluginsPool[id].enable
  /\ getPluginsByType(BOOK_SOURCE, NoFilter) # {}
  /\ getPluginsByType(BOOK_SOURCE, [NoFilter EXCEPT !.enable = "false"]) = {}

\* C19 as claimed: when two import calls for the same ID, both with force
\* and neither in debug mode, ran concurrently and both completed, the
\* registry record and the persisted record of the ID come from the same
\* call: their enabled flags agree.
C19_LastWriterWinsConsistently ==
  (/\ \A c \in Top : /\ calls[c].op \in ImportOps
                      /\ calls[c].pc = "resolved"
                      /\ calls[c].opts.force /\ ~calls[c].opts.debug
   /\ calls[1].id = calls[2].id)
  => LET id == calls[1].id
     IN /\ id \in DOMAIN pluginsPool
        /\ id \in DOMAIN db
        /\ pluginsPool[id].enable = db[id].enable

\* C20 as claimed: whenever no registry operation is in flight, every id in
\* the registry has a persisted record, and the registry's enabled flag for
\* the id equals the persisted record's enabled flag.
C20_RegistryMatchesPersistence ==
  ((\A c \in Slots : ~InFlight(c)) /\ pendingRemoves = {})
  => \A id \in DOMAIN pluginsPool :
       /\ id \in DOMAIN db
       /\ pluginsPool[id].enable = db[id].enable

\* C21 as claimed: once delete(id) has completed and every call that was in
\* flight has finished, no import or enable having been started after the
\* delete, id is absent from the registry and from persistence.
C21_DeletedStaysDeleted ==
  \A d \in Top :
    (/\ calls[d].op = "delete"
     /\ calls[d].pc = "resolved"
     /\ \A c \in Slots : ~InFlight(c))
    => /\ calls[d].id \notin DOMAIN pluginsPool
       /\ calls[d].id \notin DOMAIN db

\* The state SpecDelete starts in, as the single-plugin calls reach it.
LoadedReached ==
  pluginsPool = LoadedPool /\ pluginsStore = LoadedStores /\ db = LoadedDb

====
